---- MODULE Spec2Model ----
(***************************************************************************)
(* The a * b = c multiplicative-relationship proof of zksigma (abc.go):    *)
(* NewABCProof builds an ABCProof for the public pair (CM, CMTok) and      *)
(* ABCProof.Verify checks it.                                              *)
(*                                                                         *)
(* The curve group is a cyclic group of prime order N.  A point is written *)
(* as its multiple of G, a residue in 0..N-1; the zero point is 0, G is 1  *)
(* and H is another generator.  Scalars are integers (big.Int): they are   *)
(* reduced only where the code reduces them.                               *)
(***************************************************************************)
EXTENDS Integers, Sequences, FiniteSets

\* ------------------------------------------------------------------ bounds
\* The randomness source yields scalars 0..MaxRand (a sub-range of [0, N)).
MaxRand == 1
\* A replaced field, or a replaced commitment, differs from the original by
\* 1..MaxDelta (scalars as integers, points as multiples of G).
MaxDelta == 1

\* ----------------------------------------------------------- group context
\* ZKCurve.C.Params().N: the (prime) order of the group.
N == 5
\* ZKCurve.G and ZKCurve.H, as multiples of G.
G == 1
H == 2

Points == 0 .. (N - 1)
Scalars == 0 .. (N - 1)

\* big.Int.Mod with modulus N: the Euclidean remainder, never negative.
Mod(x) == IF x >= 0 THEN x % N ELSE (N - ((0 - x) % N)) % N

\* ECPoint.Add, ECPoint.Sub, ECPoint.Mult (the scalar is reduced mod N).
Add(p, q) == (p + q) % N
Sub(p, q) == (p + N - q) % N
Mult(p, s) == (p * Mod(s)) % N

\* big.Int.ModInverse(g, N); the inverse of 0 is 0 by convention.
ModInverse(g) ==
  IF Mod(g) = 0 THEN 0
  ELSE CHOOSE x \in 1 .. (N - 1) : (Mod(g) * x) % N = 1

\* PedCommitR(value, randomValue) = value*G + randomValue*H.
PedCommitR(v, rv) == Add(Mult(G, Mod(v)), Mult(H, Mod(rv)))

\* --------------------------------------------------------------- constants
Left == "Left"
Right == "Right"

\* The error values the two functions return.
NoErr == "nil"
ErrRand == "rand.Int failed"
ErrSide == "invalid side-value pair passed"
ErrGen == "DisjuntiveProve within ABCProve failed to generate"
ErrSub == "ABCProof for disjuncAC is false or not generated properly"
ErrChal == "proof contains incorrect challenge"
ErrEq1 == "cCM + T1 != jG + kCMTok"
ErrEq2 == "cC + T2 != jB + lH"

\* The fields of ABCProof a holder of the proof can replace.
ScalarFields == {"Challenge", "j", "k", "l"}
PointFields == {"B", "C", "T1", "T2", "CToken"}

\* A nil *DisjunctiveProof, and &ABCProof{}: every field its zero value.
NilSub == << >>
ZeroProof ==
  [B |-> 0, C |-> 0, T1 |-> 0, T2 |-> 0, Challenge |-> 0,
   j |-> 0, k |-> 0, l |-> 0, CToken |-> 0, disjuncAC |-> NilSub]

\* ------------------------------------------------------------------- state
VARIABLES
  inp,       \* the call's arguments: CM, CMTok, value, sk, option (and the
             \* blinding r the caller built CM and CMTok with)
  pc,        \* "draw", "branch", "returned", "verified"
  rnd,       \* the scalars drawn so far, in order: u1, u2, u3, ub, uc
  subGen,    \* the arguments NewDisjunctiveProof was called with, or << >>
  proof,     \* the ABCProof NewABCProof built
  ret,       \* what NewABCProof returned: ptr is "nil", "empty" or "full"
  hashed,    \* the challenge hash so far: a set of <<input, output>>
  sent,      \* the proof as the verifier receives it
  sentCM,    \* the commitment CM the verifier is given
  tampered,  \* what was replaced on the way: a field, "CM", or "none"
  vres       \* what Verify did and returned

vars ==
  <<inp, pc, rnd, subGen, proof, ret, hashed, sent, sentCM, tampered, vres>>

\* ------------------------------------------------------- NewABCProof parts
\* rand.Int(rand.Reader, N): the values the source may yield.
RandValues == 0 .. (IF MaxRand < N THEN MaxRand ELSE N - 1)

\* The differences a replaced value may have from the original.
Deltas == 1 .. (IF MaxDelta < N THEN MaxDelta ELSE N - 1)

\* The two accepted (option, value) pairings.
IsLeftCase(option, value) == option = Left /\ value = 0
\* (mutant: the Right branch taken without the value # 0 test)
IsRightCase_NoValueTest(option, value) == option = Right
IsRightCase(option, value) == option = Right /\ value # 0

\* CToken = H.Mult(sk).Mult(uc)
CTokenOf(sk, uc) == Mult(Mult(H, sk), uc)

\* (mutant: B commits to the value, not to its inverse)
CommitB_NoInverse(option, value, ub) == PedCommitR(value, ub)
\* B in the two branches.
CommitB(option, value, ub) ==
  IF option = Left THEN PedCommitR(ModInverse(0), ub)
  ELSE PedCommitR(ModInverse(value), ub)

\* C in the two branches.
CommitC(option, uc) ==
  IF option = Left THEN PedCommitR(0, uc) ELSE PedCommitR(1, uc)

\* (mutant: the two branches' witnesses exchanged)
SubWitness_Swapped(option, sk, uc) == IF option = Left THEN uc ELSE sk
\* The witness handed to NewDisjunctiveProof in the two branches.
SubWitness(option, sk, uc) == IF option = Left THEN sk ELSE uc

\* The statement handed to the disjunctive proof, by prover and verifier:
\* (Base1, Result1, Base2, Result2) = (CM, CMTok, H, C - G).
SubStatement(CM, CMTok, C) == <<CM, CMTok, H, Sub(C, G)>>

\* T1 = u1*G + u2*CMTok and T2 = u1*B + u3*H.
CommitT1(u1, u2, CMTok) == Add(Mult(G, u1), Mult(CMTok, u2))
CommitT2(u1, u3, B) == Add(Mult(B, u1), Mult(H, u3))

\* (mutant: CM left out of the hashed list)
ChallengeInput_NoCM(CM, CMTok, B, C, T1, T2) == <<G, H, CMTok, B, C, T1, T2>>
\* The ordered list GenerateChallenge hashes.
ChallengeInput(CM, CMTok, B, C, T1, T2) == <<G, H, CM, CMTok, B, C, T1, T2>>

\* (mutant: l reduced mod N like j and k)
RespL_Reduced(u3, uc, value, ub, c) == Mod(u3 + (uc - value * ub) * c)
\* (mutant: k computed with sk, not with its inverse)
RespK_NoInverse(u2, sk, c) == Mod(u2 + sk * c)
\* The responses.
RespJ(u1, value, c) == Mod(u1 + value * c)
RespK(u2, sk, c) == Mod(u2 + ModInverse(sk) * c)
RespL(u3, uc, value, ub, c) == u3 + (uc - value * ub) * c

\* ------------------------------------------------------------ collaborators
\* GenerateChallenge: a deterministic, collision-resistant hash to [0, N).
\* An input hashed before gives the output it gave; a new input gives any
\* output no other input has given.
HashChoices(table, input) ==
  IF \E e \in table : e[1] = input
  THEN {e[2] : e \in {x \in table : x[1] = input}}
  ELSE Scalars \ {e[2] : e \in table}

\* NewDisjunctiveProof(Base1, Result1, Base2, Result2, x, option) refuses a
\* witness x that does not relate the base and result of the chosen side.
WitnessOK(stmt, x, option) ==
  IF option = Left THEN Mult(stmt[1], x) = stmt[2]
  ELSE Mult(stmt[3], x) = stmt[4]

\* DisjunctiveProof.Verify accepts a proof for the statement it was
\* generated for; this module does not determine its verdict on another.
DisjunctiveVerdicts(sub, stmt) == IF sub = stmt THEN {TRUE} ELSE BOOLEAN

\* -------------------------------------------------------------------- Init
Init ==
  /\ \E sk \in 1 .. (N - 1), value \in Scalars, r \in RandValues,
        option \in {Left, Right} :
       inp = [CM |-> PedCommitR(value, r), CMTok |-> Mult(Mult(H, sk), r),
              value |-> value, sk |-> sk, option |-> option, r |-> r]
  /\ pc = "draw"
  /\ rnd = << >>
  /\ subGen = << >>
  /\ proof = ZeroProof
  /\ ret = [ptr |-> "nil", err |-> NoErr]
  /\ hashed = {}
  /\ sent = ZeroProof
  /\ sentCM = inp.CM
  /\ tampered = "none"
  /\ vres = [called |-> FALSE, ok |-> FALSE, err |-> NoErr, checks |-> << >>,
             subVer |-> << >>]

\* ------------------------------------------------------------- NewABCProof
\* One of the five rand.Int calls, in the order u1, u2, u3, ub, uc.
Draw ==
  /\ pc = "draw"
  /\ \E u \in RandValues : rnd' = Append(rnd, u)
  /\ pc' = IF Len(rnd) = 4 THEN "branch" ELSE "draw"
  /\ UNCHANGED <<inp, subGen, proof, ret, hashed, sent, sentCM, tampered, vres>>

\* A rand.Int call fails: return nil, err.
DrawFail ==
  /\ pc = "draw"
  /\ pc' = "returned"
  /\ ret' = [ptr |-> "nil", err |-> ErrRand]
  /\ UNCHANGED <<inp, rnd, subGen, proof, hashed, sent, sentCM, tampered, vres>>

\* (mutant: the sub-proof generator called before the pairing is rejected)
RejectSide_AfterSubProof ==
  /\ pc = "branch"
  /\ ~(inp.option = Left /\ inp.value = 0)
  /\ ~(inp.option = Right /\ inp.value # 0)
  /\ subGen' = <<<<inp.CM, inp.CMTok, H, Sub(0, G)>>, inp.sk, inp.option>>
  /\ pc' = "returned"
  /\ ret' = [ptr |-> "empty", err |-> ErrSide]
  /\ UNCHANGED <<inp, rnd, proof, hashed, sent, sentCM, tampered, vres>>

\* The else branch: neither pairing holds.
RejectSide ==
  /\ pc = "branch"
  /\ ~IsLeftCase(inp.option, inp.value)
  /\ ~IsRightCase(inp.option, inp.value)
  /\ pc' = "returned"
  /\ ret' = [ptr |-> "empty", err |-> ErrSide]
  /\ UNCHANGED <<inp, rnd, subGen, proof, hashed, sent, sentCM, tampered, vres>>

\* The proof NewABCProof assembles from its arguments a, the five scalars u
\* and the challenge c.
BuildProof(a, u, c) ==
  LET B == CommitB(a.option, a.value, u[4])
      C == CommitC(a.option, u[5])
  IN [B |-> B, C |-> C,
      T1 |-> CommitT1(u[1], u[2], a.CMTok),
      T2 |-> CommitT2(u[1], u[3], B),
      Challenge |-> c,
      j |-> RespJ(u[1], a.value, c),
      k |-> RespK(u[2], a.sk, c),
      l |-> RespL(u[3], u[5], a.value, u[4], c),
      CToken |-> CTokenOf(a.sk, u[5]),
      disjuncAC |-> SubStatement(a.CM, a.CMTok, C)]

\* The arguments of the NewDisjunctiveProof call.
SubGenCall(a, u) ==
  LET C == CommitC(a.option, u[5])
  IN <<SubStatement(a.CM, a.CMTok, C), SubWitness(a.option, a.sk, u[5]),
       a.option>>

\* An accepted pairing, but NewDisjunctiveProof returns an error: its
\* witness check fails, or its own randomness does.
SubProofFails ==
  /\ pc = "branch"
  /\ IsLeftCase(inp.option, inp.value) \/ IsRightCase(inp.option, inp.value)
  /\ subGen' = SubGenCall(inp, rnd)
  /\ pc' = "returned"
  /\ ret' = [ptr |-> "empty", err |-> ErrGen]
  /\ UNCHANGED <<inp, rnd, proof, hashed, sent, sentCM, tampered, vres>>

\* An accepted pairing and a sub-proof: commitments, challenge, responses.
Prove ==
  /\ pc = "branch"
  /\ IsLeftCase(inp.option, inp.value) \/ IsRightCase(inp.option, inp.value)
  /\ subGen' = SubGenCall(inp, rnd)
  /\ WitnessOK(subGen'[1], subGen'[2], subGen'[3])
  /\ \E c \in HashChoices(hashed, LET p == BuildProof(inp, rnd, 0) IN
                ChallengeInput(inp.CM, inp.CMTok, p.B, p.C, p.T1, p.T2)) :
       /\ proof' = BuildProof(inp, rnd, c)
       /\ hashed' = hashed \cup
            {<<ChallengeInput(inp.CM, inp.CMTok, proof'.B, proof'.C,
                              proof'.T1, proof'.T2), c>>}
  /\ sent' = proof'
  /\ pc' = "returned"
  /\ ret' = [ptr |-> "full", err |-> NoErr]
  /\ UNCHANGED <<inp, rnd, sentCM, tampered, vres>>

\* ------------------------------------------------------------- environment
\* The proof is stored or sent.  On the way one field is replaced by another
\* value, or the proof is presented with another commitment than its CM.
Tamper ==
  /\ pc = "returned"
  /\ ret.err = NoErr
  /\ tampered = "none"
  /\ \E f \in ScalarFields \cup PointFields \cup {"CM"}, d \in Deltas :
       /\ tampered' = f
       /\ sent' = IF f = "CM" THEN sent
                  ELSE [sent EXCEPT ![f] = IF f = "l" THEN sent.l + d
                                           ELSE Mod(sent[f] + d)]
       /\ sentCM' = IF f = "CM" THEN Add(sentCM, Mult(G, d)) ELSE sentCM
  /\ UNCHANGED <<inp, pc, rnd, subGen, proof, ret, hashed, vres>>

\* ---------------------------------------------------------- ABCProof.Verify
\* The two sides of cCM + T1 ?= jG + kCMTok, with the recomputed challenge.
lhs1(p, CM, Challenge) == Add(Mult(CM, Challenge), p.T1)
rhs1(p, CMTok) == Add(Mult(G, p.j), Mult(CMTok, p.k))

\* The two sides of cC + T2 ?= jB + lH.
lhs2(p, Challenge) == Add(Mult(p.C, Challenge), p.T2)
rhs2(p) == Add(Mult(p.B, p.j), Mult(H, p.l))

\* The checks Verify may evaluate, in the order of the code.
AllChecks == <<"disjunc", "challenge", "eq1", "eq2">>

\* (mutant: equation 1 not checked)
VerifyRun_SkipEq1(p, CM, CMTok, subOk, Challenge) ==
  IF ~subOk
  THEN [ok |-> FALSE, err |-> ErrSub, checks |-> SubSeq(AllChecks, 1, 1)]
  ELSE IF Challenge # p.Challenge
  THEN [ok |-> FALSE, err |-> ErrChal, checks |-> SubSeq(AllChecks, 1, 2)]
  ELSE IF lhs2(p, Challenge) # rhs2(p)
  THEN [ok |-> FALSE, err |-> ErrEq2, checks |-> AllChecks]
  ELSE [ok |-> TRUE, err |-> NoErr, checks |-> AllChecks]

\* (mutant: equation 2 checked before equation 1)
VerifyRun_EqSwapped(p, CM, CMTok, subOk, Challenge) ==
  IF ~subOk
  THEN [ok |-> FALSE, err |-> ErrSub, checks |-> SubSeq(AllChecks, 1, 1)]
  ELSE IF Challenge # p.Challenge
  THEN [ok |-> FALSE, err |-> ErrChal, checks |-> SubSeq(AllChecks, 1, 2)]
  ELSE IF lhs2(p, Challenge) # rhs2(p)
  THEN [ok |-> FALSE, err |-> ErrEq2, checks |-> AllChecks]
  ELSE IF lhs1(p, CM, Challenge) # rhs1(p, CMTok)
  THEN [ok |-> FALSE, err |-> ErrEq1, checks |-> AllChecks]
  ELSE [ok |-> TRUE, err |-> NoErr, checks |-> AllChecks]

\* (mutant: equation 2 computed from CToken where it should use C)
VerifyRun_CTokenInEq2(p, CM, CMTok, subOk, Challenge) ==
  IF ~subOk
  THEN [ok |-> FALSE, err |-> ErrSub, checks |-> SubSeq(AllChecks, 1, 1)]
  ELSE IF Challenge # p.Challenge
  THEN [ok |-> FALSE, err |-> ErrChal, checks |-> SubSeq(AllChecks, 1, 2)]
  ELSE IF lhs1(p, CM, Challenge) # rhs1(p, CMTok)
  THEN [ok |-> FALSE, err |-> ErrEq1, checks |-> SubSeq(AllChecks, 1, 3)]
  ELSE IF Add(Mult(p.CToken, Challenge), p.T2) # rhs2(p)
  THEN [ok |-> FALSE, err |-> ErrEq2, checks |-> AllChecks]
  ELSE [ok |-> TRUE, err |-> NoErr, checks |-> AllChecks]

\* Verify on proof p with commitments (CM, CMTok), given the sub-proof's
\* verdict and the recomputed challenge: the result, the error, and the
\* checks evaluated, in order.
VerifyRun(p, CM, CMTok, subOk, Challenge) ==
  IF ~subOk
  THEN [ok |-> FALSE, err |-> ErrSub, checks |-> SubSeq(AllChecks, 1, 1)]
  ELSE IF Challenge # p.Challenge
  THEN [ok |-> FALSE, err |-> ErrChal, checks |-> SubSeq(AllChecks, 1, 2)]
  ELSE IF lhs1(p, CM, Challenge) # rhs1(p, CMTok)
  THEN [ok |-> FALSE, err |-> ErrEq1, checks |-> SubSeq(AllChecks, 1, 3)]
  ELSE IF lhs2(p, Challenge) # rhs2(p)
  THEN [ok |-> FALSE, err |-> ErrEq2, checks |-> AllChecks]
  ELSE [ok |-> TRUE, err |-> NoErr, checks |-> AllChecks]

\* The verifier calls sent.Verify(sentCM, CMTok).  Nothing is hashed after
\* the call, so the challenge it recomputes is not added to the table.
Verify ==
  /\ pc = "returned"
  /\ ret.err = NoErr
  /\ LET stmt == SubStatement(sentCM, inp.CMTok, sent.C)
         input == ChallengeInput(sentCM, inp.CMTok, sent.B, sent.C,
                                 sent.T1, sent.T2)
     IN \E subOk \in DisjunctiveVerdicts(sent.disjuncAC, stmt),
           c \in HashChoices(hashed, input) :
          LET res == VerifyRun(sent, sentCM, inp.CMTok, subOk, c)
          IN vres' = [called |-> TRUE, ok |-> res.ok, err |-> res.err,
                      checks |-> res.checks, subVer |-> stmt]
  /\ pc' = "verified"
  /\ UNCHANGED <<inp, rnd, subGen, proof, ret, hashed, sent, sentCM, tampered>>

Next ==
  \/ Draw
  \/ DrawFail
  \/ RejectSide
  \/ SubProofFails
  \/ Prove
  \/ Tamper
  \/ Verify

Spec == Init /\ [][Next]_vars

\* ================================================================== claims
\* The side matches the value's zeroness: Left with 0, Right with nonzero.
Matching == (inp.option = Left) <=> (inp.value = 0)

\* NewABCProof has returned (Verify may have run since).
Returned == pc \in {"returned", "verified"}

\* NewABCProof returned a proof and no error.
Built == Returned /\ ret.ptr = "full"

\* What Verify may meet on the proof presented: the sub-proof's verdicts
\* and the challenges the hash may give.
SubVerdictsNow ==
  DisjunctiveVerdicts(sent.disjuncAC, SubStatement(sentCM, inp.CMTok, sent.C))
ChallengesNow ==
  HashChoices(hashed, ChallengeInput(sentCM, inp.CMTok, sent.B, sent.C,
                                     sent.T1, sent.T2))

\* NewABCProof has just returned: nothing was replaced or verified yet.
\* (inp, rnd, subGen, proof and ret never change after this state.)
JustReturned == pc = "returned" /\ tampered = "none"

\* Verify has run on the proof as built, with the prover's CM.
VerifiedAsBuilt == pc = "verified" /\ tampered = "none"

\* C1 (completeness): with honest CM = v*G + r*H, CMTok = r*sk*H, sk # 0 and
\* the side matching v's zeroness, the sub-proof generator is handed a
\* witness it accepts, so NewABCProof fails only if a source of randomness
\* does; and Verify(CM, CMTok) on the proof it returns gives (true, nil),
\* whatever scalars u1, u2, u3, ub, uc were drawn.
C1_Completeness ==
  /\ (JustReturned /\ subGen # << >>)
       => WitnessOK(subGen[1], subGen[2], subGen[3])
  /\ (JustReturned /\ Matching /\ ret.err \notin {ErrRand, ErrGen})
       => (ret.ptr = "full" /\ ret.err = NoErr)
  /\ VerifiedAsBuilt
       => (vres.ok /\ vres.err = NoErr /\ vres.checks = AllChecks)

\* C1's case: a nonzero value proved on the Right and accepted.
C1_Witness ==
  /\ VerifiedAsBuilt /\ vres.ok
  /\ inp.option = Right /\ inp.r # 0 /\ proof.Challenge # 0

C6_Original ==
  (pc = "returned" /\ ~Matching)
    => (ret.err = ErrSide /\ rnd = << >> /\ subGen = << >>)

\* C6 (amended): on an inconsistent pairing the five scalars are drawn
\* first; a failing draw returns the randomness error, and otherwise the
\* invalid side-value error is returned with all five drawn, the sub-proof
\* generator never called and no challenge hashed.
C6_RejectAfterDraws ==
  (pc = "returned" /\ ~Matching)
    => /\ ret.err \in {ErrSide, ErrRand}
       /\ ret.err = ErrSide <=> Len(rnd) = 5
       /\ subGen = << >>
       /\ hashed = {}

\* C6's case: the rejection, after five draws.
C6_Witness ==
  /\ pc = "returned" /\ ~Matching /\ ret.err = ErrSide /\ Len(rnd) = 5

\* C8 (zero-inverse convention): a Left proof (value = 0) is built without
\* error, with B = ub*H and C = uc*H; a Right proof has
\* B = inverse(value)*G + ub*H and C = G + uc*H.
C8_ZeroInverse ==
  /\ (JustReturned /\ inp.option = Left /\ inp.value = 0
        /\ ret.err \notin {ErrRand, ErrGen})
       => /\ ret.err = NoErr
          /\ proof.B = Mult(H, rnd[4])
          /\ proof.C = Mult(H, rnd[5])
  /\ (JustReturned /\ ret.ptr = "full" /\ inp.option = Right)
       => /\ \E x \in 1 .. (N - 1) :
               /\ (x * inp.value) % N = 1
               /\ proof.B = Add(Mult(G, x), Mult(H, rnd[4]))
          /\ proof.C = Add(G, Mult(H, rnd[5]))

\* C8's case: a Left proof with B = ub*H other than the zero point.
C8_Witness ==
  /\ Built /\ inp.option = Left /\ rnd[4] # 0 /\ proof.B = Mult(H, rnd[4])

\* The fields C3 names: every replaceable field but CToken.
C3Fields == {"j", "k", "l", "Challenge", "B", "C", "T1", "T2"}

\* C3 as claimed: a proof built from honest (CM, CMTok), r = 0 included,
\* with exactly one of j, k, l, Challenge, B, C, T1, T2 replaced, makes
\* Verify(CM, CMTok) return false (the claim adds: with the challenge error
\* or one of the two equation errors).
C3_Original ==
  (pc = "verified" /\ tampered \in C3Fields) => ~vres.ok

\* C3 (amended): the same replacement makes Verify return false with the
\* challenge error or an equation error, with two exceptions: a replaced k
\* goes unnoticed (Verify returns true) when CMTok is the zero point (r = 0),
\* and a replaced C may be refused earlier, by the sub-proof check, with the
\* sub-proof error.
C3_TamperSensitivity ==
  (pc = "verified" /\ tampered \in C3Fields)
    => IF tampered = "k" /\ inp.CMTok = 0
       THEN vres.ok /\ vres.err = NoErr
       ELSE /\ ~vres.ok
            /\ vres.err \in {ErrChal, ErrEq1, ErrEq2}
                 \cup (IF tampered = "C" THEN {ErrSub} ELSE {})

\* C3's case: k replaced under a CMTok other than the zero point, refused.
C3_Witness ==
  /\ pc = "verified" /\ tampered = "k" /\ sent.k # proof.k
  /\ inp.CMTok # 0 /\ ~vres.ok /\ vres.err = ErrEq1

\* C4 (cross-commitment rejection): a proof built for (CM, CMTok) and given
\* to Verify with (CM', CMTok), CM' # CM, is refused with an error: the
\* challenge hash, which gives different inputs different outputs, binds CM.
C4_CrossCommitment ==
  (pc = "verified" /\ tampered = "CM")
    => (sentCM # inp.CM /\ ~vres.ok /\ vres.err \in {ErrSub, ErrChal})

\* C4's case: the sub-proof check let the foreign CM pass and the
\* recomputed challenge refused it.
C4_Witness ==
  /\ pc = "verified" /\ tampered = "CM" /\ sent = proof
  /\ vres.err = ErrChal

\* C5 (order and short-circuit): whatever the sub-proof's verdict and the
\* recomputed challenge turn out to be, Verify evaluates (1) the sub-proof, (2) the
\* challenge, (3) equation 1, (4) equation 2 in that order and stops at the
\* first that fails, returning false with that check's error; it returns
\* (true, nil) exactly when all four pass.
C5_CheckOrder ==
  /\ pc = "verified" =>
       /\ \E n \in 1 .. 4 : vres.checks = SubSeq(AllChecks, 1, n)
       /\ vres.ok <=> vres.err = NoErr
       /\ vres.ok => vres.checks = AllChecks
       /\ vres.subVer = <<sentCM, inp.CMTok, H, Sub(sent.C, G)>>
  /\ pc = "verified" =>
       \A subOk \in SubVerdictsNow, c \in ChallengesNow :
         LET res == VerifyRun(sent, sentCM, inp.CMTok, subOk, c)
             p1 == subOk
             p2 == c = sent.Challenge
             p3 == Add(Mult(sentCM, c), sent.T1)
                     = Add(Mult(G, sent.j), Mult(inp.CMTok, sent.k))
             p4 == Add(Mult(sent.C, c), sent.T2)
                     = Add(Mult(sent.B, sent.j), Mult(H, sent.l))
         IN /\ res.ok <=> (p1 /\ p2 /\ p3 /\ p4)
            /\ res.ok <=> res.err = NoErr
            /\ ~p1 => (res.err = ErrSub /\ res.checks = <<"disjunc">>)
            /\ (p1 /\ ~p2)
                 => (res.err = ErrChal
                       /\ res.checks = <<"disjunc", "challenge">>)
            /\ (p1 /\ p2 /\ ~p3)
                 => (res.err = ErrEq1
                       /\ res.checks = <<"disjunc", "challenge", "eq1">>)
            /\ (p1 /\ p2 /\ p3 /\ ~p4)
                 => (res.err = ErrEq2 /\ res.checks = AllChecks)

\* C5's case: j replaced, so that both equations fail; equation 1's error
\* is the one returned and equation 2 is not evaluated.
C5_Witness ==
  /\ pc = "verified" /\ tampered = "j"
  /\ vres.err = ErrEq1 /\ vres.checks = <<"disjunc", "challenge", "eq1">>
  /\ lhs2(sent, sent.Challenge) # rhs2(sent)

\* C7 (responses): in every proof returned, j = (u1 + v*Challenge) mod N and
\* k = (u2 + inverse(sk)*Challenge) mod N lie in [0, N); l is the integer
\* u3 + (uc - v*ub)*Challenge, not reduced; and equation 2 and Verify give
\* for l what they give for l mod N.
C7_Responses ==
  (JustReturned /\ ret.ptr = "full") =>
    /\ proof.j \in 0 .. (N - 1) /\ proof.k \in 0 .. (N - 1)
    /\ Mod(proof.j - (rnd[1] + inp.value * proof.Challenge)) = 0
    /\ Mod((proof.k - rnd[2]) * inp.sk - proof.Challenge) = 0
    /\ proof.l = rnd[3] + (rnd[5] - inp.value * rnd[4]) * proof.Challenge
    /\ LET reduced == [proof EXCEPT !.l = Mod(proof.l)]
       IN /\ rhs2(reduced) = rhs2(proof)
          /\ \A subOk \in BOOLEAN, c \in Scalars :
               VerifyRun(reduced, inp.CM, inp.CMTok, subOk, c)
                 = VerifyRun(proof, inp.CM, inp.CMTok, subOk, c)

\* C7's case: a negative l, in a proof Verify accepts.
C7_Witness ==
  /\ VerifiedAsBuilt /\ vres.ok /\ proof.l < 0

\* C9 (CToken unbound): CToken is uc*sk*H at construction, and Verify reads
\* it nowhere: a proof that differs from the built one in CToken alone is
\* accepted like it, and replacing CToken by any other point changes neither
\* the result nor the error, whatever the sub-proof's verdict and the
\* recomputed challenge turn out to be.
C9_CTokenUnbound ==
  /\ (JustReturned /\ ret.ptr = "full")
       => proof.CToken = Mult(H, inp.sk * rnd[5])
  /\ (pc = "verified" /\ tampered = "CToken")
       => (vres.ok /\ vres.err = NoErr /\ vres.checks = AllChecks)
  /\ pc = "verified" =>
       \A subOk \in SubVerdictsNow, c \in ChallengesNow :
         LET res == VerifyRun(sent, sentCM, inp.CMTok, subOk, c)
         IN \A q \in Points \ {sent.CToken} :
              VerifyRun([sent EXCEPT !.CToken = q], sentCM, inp.CMTok,
                        subOk, c) = res

\* C9's case: a proof with a replaced CToken, accepted.
C9_Witness ==
  /\ pc = "verified" /\ tampered = "CToken" /\ sent.CToken # proof.CToken
  /\ vres.ok

\* C10 (sub-proof statement and witness): NewABCProof calls the sub-proof
\* generator with the statement (CM, CMTok, H, C - G), the side it was given
\* and a witness valid for that side: sk with CMTok = sk*CM on the Left, uc
\* with C - G = uc*H on the Right; Verify hands the sub-proof the statement
\* of the same form, the same statement when nothing was replaced.
C10_SubProofStatement ==
  /\ (JustReturned /\ subGen # << >>) =>
       /\ Matching
       /\ subGen[3] = inp.option
       /\ subGen[1][1] = inp.CM /\ subGen[1][2] = inp.CMTok
       /\ subGen[1][3] = H
       /\ inp.option = Left =>
            /\ subGen[2] = inp.sk
            /\ subGen[1][4] = Sub(Mult(H, rnd[5]), G)
            /\ Mult(inp.CM, inp.sk) = inp.CMTok
       /\ inp.option = Right =>
            /\ subGen[2] = rnd[5]
            /\ subGen[1][4] = Mult(H, rnd[5])
  /\ (JustReturned /\ ret.ptr = "full")
       => (subGen[1][4] = Sub(proof.C, G) /\ proof.disjuncAC = subGen[1])
  /\ pc = "verified" =>
       vres.subVer = <<sentCM, inp.CMTok, H, Sub(sent.C, G)>>
  /\ VerifiedAsBuilt => vres.subVer = subGen[1]

\* C10's case: a Left proof with a nonzero blinding, verified as built.
C10_Witness ==
  /\ VerifiedAsBuilt /\ inp.option = Left /\ inp.r # 0
  /\ subGen[2] = inp.sk /\ vres.subVer = subGen[1]

====
